---- MODULE Spec2Model ----
(***************************************************************************)
(* Beam-search decoder of Parser.parse (gen_pyt/model/parser.py).          *)
(*                                                                         *)
(* Real-valued quantities are kept exact as integers:                      *)
(*   - probabilities of the primitive-token distribution are counted in    *)
(*     units of 1/(GateUnit*ProbUnit);                                     *)
(*   - log-probabilities and scores are counted in quarter bits            *)
(*     (LogP(n) = floor(4*log2(n)) - 4*log2(GateUnit*ProbUnit)).           *)
(* Ids, positions and time steps are 0-based as in the source; sequences   *)
(* are 1-based, so element i of a list is At0(list, i).                    *)
(***************************************************************************)
EXTENDS Integers, Sequences, FiniteSets, TLC

\* ------------------------------------------------------------------ bounds
MaxBeam == 2
MaxSrcLen == 2
NumSeeds == 2
MaxStep == 4
MaxCalls == 3
MaxTgtLen == 2
MaxPad == 2
MaxTokens == 4

\* ---------------------------------------------------------- number scales
ProbUnit == 8
GateUnit == 4
LogScale == 4
StateMod == 5

\* ------------------------------------------------------------ list helpers
At0(s, i) == s[i + 1]

Range(s) == {s[i] : i \in 1..Len(s)}

\* the concatenation of the lists of a list
Flatten(ss) ==
    LET F[i \in 0..Len(ss)] == IF i = 0 THEN <<>> ELSE F[i - 1] \o ss[i]
    IN  F[Len(ss)]

\* the sum of the numbers of a list
SumSeq(s) ==
    LET F[i \in 0..Len(s)] == IF i = 0 THEN 0 ELSE F[i - 1] + s[i]
    IN  F[Len(s)]

Min2(a, b) == IF a < b THEN a ELSE b

\* Op applied to the value of e, which is computed once
Bind(e, Op(_)) == CHOOSE r \in {Op(v) : v \in {e}} : TRUE

\* all sequences over S of length 1..n
SeqsUpTo(S, n) == UNION {[1..k -> S] : k \in 1..n}

\* ---------------------------------------------------------------- grammar
\* Three grammars: 1 = a single root production without fields,
\* 2 = a root production with one sequence-valued primitive field,
\* 3 = composite and primitive fields of both cardinalities.
GrammarIds == {1, 2, 3}

PrimitiveTypes == {"str"}

GrammarTable ==
    [g \in GrammarIds |->
        CASE g = 1 -> << [type |-> "root", fields |-> <<>>] >>
          [] g = 2 -> << [type |-> "root",
                          fields |-> << [type |-> "str", card |-> "multiple"] >>] >>
          [] OTHER -> << [type |-> "root",
                          fields |-> << [type |-> "expr", card |-> "multiple"] >>],
                         [type |-> "root",
                          fields |-> << [type |-> "str", card |-> "single"] >>],
                         [type |-> "expr",
                          fields |-> << [type |-> "str", card |-> "single"] >>],
                         [type |-> "expr",
                          fields |-> << [type |-> "expr", card |-> "single"],
                                        [type |-> "str", card |-> "multiple"] >>],
                         [type |-> "expr", fields |-> <<>>] >>]

\* the productions of grammar g, production id i is element i + 1
Productions(g) == GrammarTable[g]

\* len(self.grammar); it is also the id of the Reduce entry
GrammarLen(g) == Len(Productions(g))

root_type == "root"

\* ---------------------------------------------------- primitive vocabulary
idxToLabel == << "<pad>", "<unk>", "a", "b" >>
unk == (CHOOSE i \in 1..Len(idxToLabel) : idxToLabel[i] = "<unk>") - 1
VocabSize == Len(idxToLabel)

InVocab(token) == \E i \in 1..VocabSize : idxToLabel[i] = token

\* prim_vocab[token]: the slot of a token, the unknown slot for any other
VocabId(token) ==
    IF InVocab(token)
    THEN (CHOOSE i \in 1..VocabSize : idxToLabel[i] = token) - 1
    ELSE unk

SrcTokens == {"a", "b", "x", "y"}

\* ------------------------------------------------------------- hypothesis
\* A hypothesis is its action history, its score and the open path of its
\* tree: one frame per node with an open field, root first.  A frame holds
\* the node's production, its created_time, the index of its open field and
\* the number of children that field already has.
EmptyHyp == [actions |-> <<>>, stack |-> <<>>, score |-> 0, t |-> 0]

Completed(hyp) == Len(hyp.actions) > 0 /\ hyp.stack = <<>>

Top(stack) == stack[Len(stack)]
Pop(stack) == SubSeq(stack, 1, Len(stack) - 1)

FrameFields(g, fr) == At0(Productions(g), fr.prod).fields

\* hyp.frontier_node / hyp.frontier_field of a hypothesis with an open field
FrontierNode(hyp) == Top(hyp.stack)
FrontierField(g, hyp) == FrameFields(g, Top(hyp.stack))[Top(hyp.stack).fidx]

RECURSIVE Normalize(_, _)
RECURSIVE ChildDone(_, _)
\* the open field of the top frame received a finished child
ChildDone(g, stack) ==
    IF stack = <<>> THEN <<>>
    ELSE LET fr == Top(stack)
             fld == FrameFields(g, fr)[fr.fidx]
         IN  IF fld.card = "single"
             THEN Normalize(g, Pop(stack) \o << [fr EXCEPT !.fidx = @ + 1, !.n = 0] >>)
             ELSE Pop(stack) \o << [fr EXCEPT !.n = @ + 1] >>
\* drop the frames whose fields are all closed
Normalize(g, stack) ==
    IF stack = <<>> THEN <<>>
    ELSE IF Top(stack).fidx > Len(FrameFields(g, Top(stack)))
         THEN ChildDone(g, Pop(stack))
         ELSE stack

\* faulty variant: a new node is stamped with the time after the action
ApplyToStackLate(g, stack, action, t) ==
    CASE action.kind = "ApplyRule" ->
            IF At0(Productions(g), action.prod).fields = <<>>
            THEN ChildDone(g, stack)
            ELSE stack \o << [prod |-> action.prod, created_time |-> t + 1,
                              fidx |-> 1, n |-> 0] >>
      [] action.kind = "Reduce" ->
            Normalize(g, Pop(stack) \o << [Top(stack) EXCEPT !.fidx = @ + 1, !.n = 0] >>)
      [] OTHER -> ChildDone(g, stack)

\* Hypothesis.apply_action on the open path
ApplyToStack(g, stack, action, t) ==
    CASE action.kind = "ApplyRule" ->
            IF At0(Productions(g), action.prod).fields = <<>>
            THEN ChildDone(g, stack)
            ELSE stack \o << [prod |-> action.prod, created_time |-> t,
                              fidx |-> 1, n |-> 0] >>
      [] action.kind = "Reduce" ->
            Normalize(g, Pop(stack) \o << [Top(stack) EXCEPT !.fidx = @ + 1, !.n = 0] >>)
      [] OTHER -> ChildDone(g, stack)

\* DecodeHypothesis.clone_and_apply_action_info: a new hypothesis, the
\* original is left as it is
clone_and_apply_action_info(g, hyp, action_info) ==
    [actions |-> Append(hyp.actions, action_info),
     stack   |-> ApplyToStack(g, hyp.stack, action_info, hyp.t),
     score   |-> hyp.score,
     t       |-> hyp.t + 1]

\* faulty variant: the clone shares the action list and the tree with the original,
\* which therefore receives the action as well
OriginalAfterApplyShared(g, hyp, action_info) ==
    [hyp EXCEPT !.actions = Append(hyp.actions, action_info),
                !.stack = ApplyToStack(g, hyp.stack, action_info, hyp.t)]

\* the hypothesis clone_and_apply_action_info was called on, after the call:
\* the clone owns its action history and its tree
OriginalAfterApply(g, hyp, action_info) == hyp

\* ------------------------------------------------------ transition system
\* faulty variant: Reduce is offered on a sequence-valued field that is still empty
get_valid_continuation_types_empty_reduce(g, hyp) ==
    IF hyp.actions = <<>> THEN << "ApplyRule" >>
    ELSE LET fld == FrontierField(g, hyp)
             red == IF fld.card = "multiple" THEN << "Reduce" >> ELSE <<>>
         IN  IF fld.type \in PrimitiveTypes
             THEN << "GenToken" >> \o red
             ELSE << "ApplyRule" >> \o red

\* get_valid_continuation_types; only called on a hypothesis with a frontier
get_valid_continuation_types(g, hyp) ==
    IF hyp.actions = <<>> THEN << "ApplyRule" >>
    ELSE LET fld == FrontierField(g, hyp)
             red == IF fld.card = "multiple" /\ Top(hyp.stack).n >= 1
                    THEN << "Reduce" >> ELSE <<>>
         IN  IF fld.type \in PrimitiveTypes
             THEN << "GenToken" >> \o red
             ELSE << "ApplyRule" >> \o red

\* get_valid_continuating_productions: the ids of the productions of the
\* frontier field's type, in grammar order
get_valid_continuating_productions(g, hyp) ==
    LET ty == IF hyp.actions = <<>> THEN root_type ELSE FrontierField(g, hyp).type
        ids == [i \in 1..GrammarLen(g) |-> i - 1]
    IN  SelectSeq(ids, LAMBDA id : At0(Productions(g), id).type = ty)

\* ------------------------------------------------------------------ state
VARIABLES
    \* the parser and the arguments of the calls
    gram, seed, tieMode, no_copy, src_sent, beam_size, return_states,
    \* the caller: number of calls made, what the first call returned, and
    \* the partial hypotheses (with their decoder states) it can resume from
    calls, first_result, first_states, partials,
    \* the call in progress
    pc, err, mode, in_hyp, in_states, t, t0, steps,
    hypotheses, hyp_states, hyp_scores, h_tm1,
    completed_hypotheses, saved_states,
    \* what the last executed step computed
    step_hyps, step_h_t, step_ncompleted, primitive_prob,
    applyrule_new_hyp_scores, gentoken_prev_hyp_ids, gentoken_new_hyp_unks,
    new_hyp_scores, top_new_hyp_pos, selected, new_hypotheses, live_hyp_ids,
    \* the objects the last executed step was handed: the hypotheses of the
    \* beam after the step, their state lists before and after the step
    step_hyps_after, step_states, step_states_after,
    \* the value returned
    result, result_states,
    \* what Parser.sample returned to the caller
    sample_result,
    \* Parser.score: the target positions of one example of the batch, the
    \* padding positions the batch gives it, the copy switch, the score
    sc_pc, sc_no_copy, sc_example, sc_padding, sc_score,
    \* stanford_parse: the governor of every token of the parse, and the
    \* has_children flag of every token after construction
    dep_pc, dep_governor, has_children

cfgvars == << gram, seed, tieMode, no_copy, src_sent, beam_size, return_states >>
callervars == << calls, first_result, first_states, partials >>
callargs == << mode, in_hyp, in_states, t0 >>
loopvars == << t, steps, hypotheses, hyp_states, hyp_scores, h_tm1,
               completed_hypotheses, saved_states >>
stepvars == << step_hyps, step_h_t, step_ncompleted, primitive_prob,
               applyrule_new_hyp_scores, gentoken_prev_hyp_ids,
               gentoken_new_hyp_unks, new_hyp_scores, top_new_hyp_pos,
               selected, new_hypotheses, live_hyp_ids,
               step_hyps_after, step_states, step_states_after >>
retvars == << result, result_states >>
scorevars == << sc_pc, sc_no_copy, sc_example, sc_padding, sc_score >>
depvars == << dep_pc, dep_governor, has_children >>
auxvars == << scorevars, depvars >>
vars == << cfgvars, callervars, pc, err, callargs, loopvars, stepvars, retvars,
          sample_result, auxvars >>

\* args['decode_max_time_step']
decode_max_time_step == MaxStep

\* ----------------------------------------------------------------- scorer
\* The numeric layers are a fixed function of the input and of the decoder
\* state; seed picks the function (the weights).
TokenCode(token) == CASE token = "a" -> 1 [] token = "b" -> 2
                      [] token = "x" -> 3 [] OTHER -> 4

\* encode + init_decoder_state
init_decoder_state(src) ==
    (SumSeq([i \in 1..Len(src) |-> TokenCode(src[i])]) + seed) % StateMod

\* the embedding of the previous action a_tm1
ActionEmbed(g, a_tm1) ==
    CASE a_tm1.kind = "ApplyRule" -> a_tm1.prod
      [] a_tm1.kind = "Reduce" -> GrammarLen(g)
      [] OTHER -> GrammarLen(g) + 1 + VocabId(a_tm1.token)

\* the decoder input x of one hypothesis: zero at t = 0, else previous
\* action, frontier production, field and type, and the parent state
\* hyp_states[hyp_id][p_t]
DecoderInput(g, hyp, states, tt) ==
    IF tt = 0 THEN 0
    ELSE LET p_t == FrontierNode(hyp).created_time
         IN  ActionEmbed(g, At0(hyp.actions, tt - 1))
             + FrontierNode(hyp).prod + FrontierNode(hyp).fidx
             + At0(states, p_t)

\* self.step: the new decoder state (h_t, cell_t, att_t) of one hypothesis
DecoderStep(x, h) == (2 * h + x + seed + 1) % StateMod

\* F.log_softmax(production_readout(att_t)): entry id of a hypothesis
apply_rule_log_prob(s, id) == 0 - (2 + 3 * ((s + id * (seed + 1)) % 4))

\* the softmax of a readout whose largest logit is far above the others
\* underflows: the other entries are exactly 0
Underflows(s) == (s + seed) % 2 = 1

\* F.softmax(tgt_token_readout(att_t)): slot token_id, in 1/ProbUnit
gen_from_vocab_prob(s, token_id) ==
    LET peak == (s + seed) % VocabSize
    IN  IF Underflows(s)
        THEN (IF token_id = peak THEN ProbUnit ELSE 0)
        ELSE 1 + (IF token_id = peak THEN ProbUnit - VocabSize ELSE 0)

\* src_pointer_net: attention on source position pos, in 1/ProbUnit
primitive_copy_prob(s, pos) ==
    1 + (IF pos = (s + 2 * seed) % Len(src_sent)
         THEN ProbUnit - Len(src_sent) ELSE 0)

\* F.softmax(primitive_predictor(att_t)): entry 0 generate, 1 copy, in
\* 1/GateUnit; either entry can underflow to 0
primitive_predictor_prob(s, i) ==
    LET gen == (s + seed + GateUnit - 1) % (GateUnit + 1)
    IN  IF i = 0 THEN gen ELSE GateUnit - gen

\* ------------------------------------------------------------- logarithm
NegInf == 0 - 1000

RECURSIVE FloorLog2(_)
FloorLog2(n) == IF n <= 1 THEN 0 ELSE 1 + FloorLog2(n \div 2)

RECURSIVE Pow(_, _)
Pow(b, e) == IF e = 0 THEN 1 ELSE b * Pow(b, e - 1)

\* torch.log of a probability of n units, in 1/LogScale bits
LogTable ==
    [n \in 0..(2 * GateUnit * ProbUnit) |->
        IF n = 0 THEN NegInf
        ELSE FloorLog2(Pow(n, LogScale)) - FloorLog2(Pow(GateUnit * ProbUnit, LogScale))]

LogP(n) == LogTable[n]

AddScore(a, b) == IF a = NegInf \/ b = NegInf THEN NegInf ELSE a + b

\* ------------------------------------------- source tokens (lines 610-613)
\* aggregated_primitive_tokens: the distinct tokens in order of first
\* occurrence, each with the list of its positions
aggregated_primitive_tokens(src) ==
    LET first == SelectSeq([i \in 1..Len(src) |-> i],
                           LAMBDA i : \A j \in 1..(i - 1) : src[j] # src[i])
    IN  [k \in 1..Len(first) |-> src[first[k]]]

\* faulty variant: only the first occurrence of a token is kept
token_pos_first(src, token) ==
    LET pos == SelectSeq([i \in 1..Len(src) |-> i], LAMBDA i : src[i] = token)
    IN  << pos[1] - 1 >>

\* aggregated_primitive_tokens[token]: the positions of a token, ascending
token_pos_list(src, token) ==
    LET pos == SelectSeq([i \in 1..Len(src) |-> i], LAMBDA i : src[i] = token)
    IN  [k \in 1..Len(pos) |-> pos[k] - 1]

\* --------------------------------------------------- one step: the scores
\* In the operators below ht is the list of the decoder states this step
\* computed, one per hypothesis of the beam, and s one of its elements.
HypIds == [i \in 1..Len(hypotheses) |-> i - 1]

\* the decoder state computed in this step for hypothesis hyp_id (line 717)
h_t(hyp_id) ==
    DecoderStep(DecoderInput(gram, At0(hypotheses, hyp_id),
                             At0(hyp_states, hyp_id), t),
                At0(h_tm1, hyp_id))

\* the ApplyRule and Reduce candidates of one hypothesis (lines 757-778)
ApplyRuleCandidates(ht, hyp_id) ==
    LET hyp == At0(hypotheses, hyp_id)
        action_types == get_valid_continuation_types(gram, hyp)
        productions == get_valid_continuating_productions(gram, hyp)
        OfType(action_type) ==
            CASE action_type = "ApplyRule" ->
                    [k \in 1..Len(productions) |->
                        [score |-> AddScore(hyp.score,
                                            apply_rule_log_prob(At0(ht, hyp_id), productions[k])),
                         prod_id |-> productions[k],
                         hyp_id |-> hyp_id]]
              [] action_type = "Reduce" ->
                    << [score |-> AddScore(hyp.score,
                                           apply_rule_log_prob(At0(ht, hyp_id), GrammarLen(gram))),
                        prod_id |-> GrammarLen(gram),
                        hyp_id |-> hyp_id] >>
              [] OTHER -> <<>>
    IN  Flatten([k \in 1..Len(action_types) |-> OfType(action_types[k])])

\* applyrule_new_hyp_scores / _prod_ids / _prev_hyp_ids as one list
applyrule_new_hyps(ht) ==
    Flatten([i \in 1..Len(hypotheses) |-> ApplyRuleCandidates(ht, i - 1)])

\* the hypotheses with a legal GenToken move (line 781)
GenTokenPrevHypIds ==
    SelectSeq(HypIds, LAMBDA hyp_id :
        "GenToken" \in Range(get_valid_continuation_types(gram, At0(hypotheses, hyp_id))))

\* primitive_predictor_prob[hyp_id, 1] * sum of the attention on the
\* positions of a token (lines 787-788)
gated_copy_prob(s, token) ==
    LET token_pos == token_pos_list(src_sent, token)
        sum_copy_prob == SumSeq([k \in 1..Len(token_pos) |->
                                    primitive_copy_prob(s, token_pos[k])])
    IN  primitive_predictor_prob(s, 1) * sum_copy_prob

\* hyp_unk_copy_info: the tokens of the input that are not in the vocabulary
hyp_unk_copy_info(s) ==
    IF no_copy THEN <<>>
    ELSE LET toks == SelectSeq(aggregated_primitive_tokens(src_sent),
                               LAMBDA token : ~InVocab(token))
         IN  [k \in 1..Len(toks) |->
                [token |-> toks[k], copy_prob |-> gated_copy_prob(s, toks[k])]]

\* np.argmax: the first index of the largest element
argmax[probs \in Seq(Int)] ==
    (CHOOSE i \in 1..Len(probs) :
        /\ \A j \in 1..Len(probs) : probs[j] <= probs[i]
        /\ \A j \in 1..(i - 1) : probs[j] < probs[i]) - 1

\* unk_i (line 799)
unk_i(info) == argmax[[k \in 1..Len(info) |-> info[k].copy_prob]]

\* faulty variant: the copy mass is added to the unknown slot, not stored in it
UnkSlotProbAdded(info, generated) == generated + At0(info, unk_i(info)).copy_prob

\* the value stored in the unknown slot (line 801); generated is the value
\* the slot held
UnkSlotProb(info, generated) == At0(info, unk_i(info)).copy_prob

\* primitive_prob[hyp_id, token_id] before the aggregation (lines 729-739)
GenPrimitiveProb(s, token_id) ==
    IF no_copy
    THEN GateUnit * gen_from_vocab_prob(s, token_id)
    ELSE primitive_predictor_prob(s, 0) * gen_from_vocab_prob(s, token_id)

\* the copy mass added to a vocabulary slot (lines 790-792)
CopyPrimitiveProb(s, token_id) ==
    LET toks == SelectSeq(aggregated_primitive_tokens(src_sent),
                          LAMBDA token : InVocab(token) /\ VocabId(token) = token_id)
    IN  SumSeq([k \in 1..Len(toks) |-> gated_copy_prob(s, toks[k])])

\* primitive_prob[hyp_id, token_id] after the loop over the hypotheses;
\* only the rows of the hypotheses with a GenToken move are changed
PrimitiveProb(s, gentoken, token_id) ==
    IF no_copy \/ ~gentoken
    THEN GenPrimitiveProb(s, token_id)
    ELSE IF token_id = unk /\ hyp_unk_copy_info(s) # <<>>
         THEN UnkSlotProb(hyp_unk_copy_info(s), GenPrimitiveProb(s, token_id))
         ELSE GenPrimitiveProb(s, token_id) + CopyPrimitiveProb(s, token_id)

\* primitive_prob after the loop of lines 751-802
PrimitiveProbAll(ht, gentoken_ids) ==
    [i \in 1..Len(ht) |->
        [slot \in 1..VocabSize |->
            PrimitiveProb(ht[i], (i - 1) \in Range(gentoken_ids), slot - 1)]]

\* gentoken_new_hyp_unks (lines 798-802)
GenTokenNewHypUnks(ht, gentoken_ids) ==
    Flatten([k \in 1..Len(gentoken_ids) |->
        LET info == hyp_unk_copy_info(At0(ht, gentoken_ids[k]))
        IN  IF info = <<>> THEN <<>> ELSE << At0(info, unk_i(info)).token >>])

\* the score the GenToken candidates of a hypothesis start from (line 812)
GenTokenBaseScore(scores, hyp, hyp_id) == At0(scores, hyp_id)

\* gen_token_new_hyp_scores, flattened (lines 811-813)
gen_token_new_hyp_scores(gentoken_ids, prim_prob) ==
    Flatten([k \in 1..Len(gentoken_ids) |->
        [slot \in 1..VocabSize |->
            AddScore(GenTokenBaseScore(hyp_scores,
                                       At0(hypotheses, gentoken_ids[k]),
                                       gentoken_ids[k]),
                     LogP(At0(prim_prob, gentoken_ids[k])[slot]))]])

\* new_hyp_scores (lines 805-819); empty stands for None
NewHypScores(applyrule, gentoken_ids, prim_prob) ==
    [k \in 1..Len(applyrule) |-> applyrule[k].score]
        \o gen_token_new_hyp_scores(gentoken_ids, prim_prob)

\* ------------------------------------------------ one step: the selection
\* faulty variant: the completed hypotheses are not subtracted from the beam size
TopKSizeWholeBeam(n, beam, ncompleted) == Min2(n, beam)

\* k of torch.topk (lines 822-823)
TopKSize(n, beam, ncompleted) == Min2(n, beam - ncompleted)

\* faulty variant: the smallest scores are taken first
BeforeSmallest(scores, i, j) ==
    \/ At0(scores, i) < At0(scores, j)
    \/ /\ At0(scores, i) = At0(scores, j)
       /\ IF tieMode = "low" THEN i < j ELSE i > j

\* torch.topk: the positions of the k largest scores, largest first; the
\* order among equal scores is not specified by the library, it is fixed
\* by tieMode for a run
Before(scores, i, j) ==
    \/ At0(scores, i) > At0(scores, j)
    \/ /\ At0(scores, i) = At0(scores, j)
       /\ IF tieMode = "low" THEN i < j ELSE i > j

RECURSIVE topk(_, _, _)
\* faulty variant: the first k candidates are taken, whatever their scores
topkFirst(scores, k, taken) == [i \in 1..k |-> i - 1]

\* the k positions that come first in the order of Before
topk(scores, k, taken) ==
    IF k <= 0 THEN <<>>
    ELSE LET rest == (0..(Len(scores) - 1)) \ taken
             best == CHOOSE i \in rest : \A j \in rest \ {i} : Before(scores, i, j)
         IN  << best >> \o topk(scores, k - 1, taken \cup {best})

\* ------------------------------------------- one step: the new hypotheses
NoTime == 0 - 1

\* In the operators below c holds the lists one iteration built before the
\* selection: c.applyrule the ApplyRule/Reduce candidates,
\* c.gentoken_prev_hyp_ids and c.gentoken_new_hyp_unks the GenToken lists,
\* c.new_hyp_scores the flat score array, c.hypotheses the beam.
\* faulty variant: the row number of a GenToken candidate is taken for the id of its
\* hypothesis
PrevHypIdByRow(c, new_hyp_pos) ==
    IF new_hyp_pos < Len(c.applyrule)
    THEN At0(c.applyrule, new_hyp_pos).hyp_id
    ELSE (new_hyp_pos - Len(c.applyrule)) \div VocabSize

\* the originating hypothesis of the candidate at a flat position
\* (lines 833-836 and 851-854)
PrevHypId(c, new_hyp_pos) ==
    IF new_hyp_pos < Len(c.applyrule)
    THEN At0(c.applyrule, new_hyp_pos).hyp_id
    ELSE At0(c.gentoken_prev_hyp_ids,
             (new_hyp_pos - Len(c.applyrule)) \div VocabSize)

\* faulty variant: the offset of the ApplyRule/Reduce candidates is not subtracted
\* before the slot is taken
GenTokenTokenNoOffset(c, new_hyp_pos) ==
    LET token_id == new_hyp_pos % VocabSize
        k == (new_hyp_pos - Len(c.applyrule)) \div VocabSize
    IN  IF token_id = unk
        THEN IF c.gentoken_new_hyp_unks # <<>>
             THEN At0(c.gentoken_new_hyp_unks, k)
             ELSE At0(idxToLabel, unk)
        ELSE At0(idxToLabel, token_id)

\* faulty variant: the recorded tokens are read in the reverse order, so a hypothesis
\* gets the token recorded for another one
GenTokenTokenOtherUnk(c, new_hyp_pos) ==
    LET token_id == (new_hyp_pos - Len(c.applyrule)) % VocabSize
        k == (new_hyp_pos - Len(c.applyrule)) \div VocabSize
    IN  IF token_id = unk
        THEN IF c.gentoken_new_hyp_unks # <<>>
             THEN At0(c.gentoken_new_hyp_unks, Len(c.gentoken_new_hyp_unks) - 1 - k)
             ELSE At0(idxToLabel, unk)
        ELSE At0(idxToLabel, token_id)

\* the token of a GenToken candidate (lines 851-862)
GenTokenToken(c, new_hyp_pos) ==
    LET token_id == (new_hyp_pos - Len(c.applyrule)) % VocabSize
        k == (new_hyp_pos - Len(c.applyrule)) \div VocabSize
    IN  IF token_id = unk
        THEN IF c.gentoken_new_hyp_unks # <<>>
             THEN At0(c.gentoken_new_hyp_unks, k)
             ELSE At0(idxToLabel, unk)
        ELSE At0(idxToLabel, token_id)

\* faulty variant: provenance is recorded only when copy is enabled
InSourceCopyOnly(src, token) == ~no_copy /\ token \in Range(src)

\* token in aggregated_primitive_tokens (line 867)
InSource(src, token) == token \in Range(src)

\* the action_info of the candidate at a flat position (lines 831-877)
ActionInfo(c, new_hyp_pos) ==
    LET prev_hyp == At0(c.hypotheses, PrevHypId(c, new_hyp_pos))
        isRule == new_hyp_pos < Len(c.applyrule)
        prod_id == IF isRule THEN At0(c.applyrule, new_hyp_pos).prod_id
                   ELSE NoTime
        token == IF isRule THEN "" ELSE GenTokenToken(c, new_hyp_pos)
        copied == ~isRule /\ InSource(src_sent, token)
    IN  [kind |-> IF isRule
                  THEN (IF prod_id < GrammarLen(gram) THEN "ApplyRule" ELSE "Reduce")
                  ELSE "GenToken",
         prod |-> IF isRule /\ prod_id < GrammarLen(gram) THEN prod_id ELSE NoTime,
         token |-> token,
         copy_from_src |-> copied,
         src_token_position |-> IF copied THEN token_pos_list(src_sent, token) ELSE <<>>,
         t |-> t,
         parent_t |-> IF t > 0 THEN FrontierNode(prev_hyp).created_time ELSE NoTime,
         frontier_prod |-> IF t > 0 THEN FrontierNode(prev_hyp).prod ELSE NoTime,
         frontier_field |-> IF t > 0 THEN FrontierNode(prev_hyp).fidx ELSE 0]

\* faulty variant: the score of the selected candidate is not stored in the new
\* hypothesis
NewHypScoreKept(c, new_hyp_pos) ==
    clone_and_apply_action_info(gram, At0(c.hypotheses, PrevHypId(c, new_hyp_pos)),
                                ActionInfo(c, new_hyp_pos))

\* new_hyp of the candidate at a flat position (lines 879-880)
NewHyp(c, new_hyp_pos) ==
    [clone_and_apply_action_info(gram, At0(c.hypotheses, PrevHypId(c, new_hyp_pos)),
                                 ActionInfo(c, new_hyp_pos))
        EXCEPT !.score = At0(c.new_hyp_scores, new_hyp_pos)]

\* one iteration of the loop of lines 830-891: acc.hypotheses is the beam as
\* the earlier iterations left it, acc.sel the new hypotheses so far
MaterialiseOne(c, acc, new_hyp_pos) ==
    Bind([c EXCEPT !.hypotheses = acc.hypotheses], LAMBDA cur :
    Bind(ActionInfo(cur, new_hyp_pos), LAMBDA action_info :
        [hypotheses |->
            [acc.hypotheses EXCEPT
                ![PrevHypId(c, new_hyp_pos) + 1] = OriginalAfterApply(gram, @, action_info)],
         sel |-> Append(acc.sel, [hyp |-> NewHyp(cur, new_hyp_pos),
                                  prev_hyp_id |-> PrevHypId(c, new_hyp_pos),
                                  new_hyp_pos |-> new_hyp_pos])]))

\* the loop of lines 830-891 over the selected positions: each iteration
\* reads its originating hypothesis in the beam as the earlier iterations
\* left it; sel collects the new hypotheses, hypotheses is the beam
Materialise(c, top) ==
    LET F[i \in 0..Len(top)] ==
            IF i = 0 THEN [hypotheses |-> c.hypotheses, sel |-> <<>>]
            ELSE Bind(F[i - 1], LAMBDA acc : MaterialiseOne(c, acc, top[i]))
    IN  F[Len(top)]

\* the selected candidates in the order of the loop of line 830
SelectedOf(c, top) == Materialise(c, top).sel

\* the hypotheses of the beam after the loop of line 830
BeamAfter(c, top) == Materialise(c, top).hypotheses

\* faulty variant: the new state is appended to the list of the originating hypothesis
StatesAfterExtendInPlace(states, s) == Append(states, s)

\* the list hyp_states[i] after hyp_states[i] + [state] (lines 887 and 894):
\* + builds a new list
StatesAfterExtend(states, s) == states

\* one list hyp_states[prev_hyp_id] + [state]
ExtendOne(acc, ht, prev_hyp_id) ==
    [heap |-> [acc.heap EXCEPT
                ![prev_hyp_id + 1] = StatesAfterExtend(@, At0(ht, prev_hyp_id))],
     out |-> Append(acc.out, Append(At0(acc.heap, prev_hyp_id), At0(ht, prev_hyp_id)))]

\* the lists hyp_states[prev_hyp_id] + [state] for the candidates xs, built
\* one after the other (line 887 inside the loop, then line 894); heap holds
\* the lists of the beam, out the lists that were built
ExtendAll(heap0, ht, xs) ==
    LET F[i \in 0..Len(xs)] ==
            IF i = 0 THEN [heap |-> heap0, out |-> <<>>]
            ELSE Bind(F[i - 1], LAMBDA acc : ExtendOne(acc, ht, xs[i].prev_hyp_id))
    IN  F[Len(xs)]

\* ------------------------------------------------------- loop and result
\* faulty variant: the step bound is compared with <=
LoopCondInclusive(ncompleted, beam, tt) ==
    ncompleted < beam /\ tt <= decode_max_time_step

\* the condition of the while loop (line 632)
LoopCond(ncompleted, beam, tt) ==
    ncompleted < beam /\ tt < decode_max_time_step

\* faulty variant: t is not advanced
NextTStay(tt) == tt

\* t += 1 (line 899)
NextT(tt) == tt + 1

\* the order of a stable sort by decreasing key: the indices of keys
RECURSIVE InsertByKey(_, _, _)
InsertByKey(order, i, keys) ==
    IF order = <<>> THEN << i >>
    ELSE IF keys[Head(order)] >= keys[i]
         THEN << Head(order) >> \o InsertByKey(Tail(order), i, keys)
         ELSE << i >> \o order

RECURSIVE StableOrder(_, _)
StableOrder(keys, n) ==
    IF n = 0 THEN <<>> ELSE InsertByKey(StableOrder(keys, n - 1), n, keys)

\* list.sort(key=lambda hyp: -hyp.score) (line 913)
SortByScore(list) ==
    LET order == StableOrder([i \in 1..Len(list) |-> list[i].score], Len(list))
    IN  [k \in 1..Len(list) |-> list[order[k]]]

\* faulty variant: the state histories are returned in the order of completion
SortStatesKeepOrder(completed, states) == states

\* sorted(zip(completed_hypotheses, saved_states), key=-pair[0].score)
\* (lines 904-906); zip stops at the shorter list
SortStatesByScore(completed, states) ==
    LET n == Min2(Len(completed), Len(states))
        order == StableOrder([i \in 1..n |-> completed[i].score], n)
    IN  [k \in 1..n |-> states[order[k]]]

\* faulty variant: the live hypotheses are returned with the completed ones
ResultListBoth(completed, hyps) == completed \o hyps

\* faulty variant: only the completed hypotheses are ever returned
ResultListCompleted(completed, hyps) == completed

\* faulty variant: the beam is returned whether or not a hypothesis completed
ResultListLive(completed, hyps) == hyps

\* faulty variant: a newly completed hypothesis with a higher score displaces the
\* completed hypotheses found before
CompletedAfterDisplace(completed, new_completed) ==
    IF new_completed # <<>> /\ completed # <<>>
            /\ new_completed[1].score > completed[Len(completed)].score
    THEN new_completed
    ELSE completed \o new_completed

\* completed_hypotheses after the appends of line 888 in one step
CompletedAfter(completed, new_completed) == completed \o new_completed

\* the list that is returned (lines 908-911)
ResultList(completed, hyps) == IF Len(completed) > 0 THEN completed ELSE hyps

\* ----------------------------------------------------------------- actions
\* the utterance "a a b": a token of the vocabulary that occurs twice
RepeatedTokenSent == << "a", "a", "b" >>

\* the utterances of the calls
SrcSents == SeqsUpTo(SrcTokens, MaxSrcLen) \cup {RepeatedTokenSent}

NoStep ==
    /\ step_hyps = <<>> /\ step_h_t = <<>> /\ step_ncompleted = 0
    /\ primitive_prob = <<>> /\ applyrule_new_hyp_scores = <<>>
    /\ gentoken_prev_hyp_ids = <<>> /\ gentoken_new_hyp_unks = <<>>
    /\ new_hyp_scores = <<>> /\ top_new_hyp_pos = <<>> /\ selected = <<>>
    /\ new_hypotheses = <<>> /\ live_hyp_ids = <<>>
    /\ step_hyps_after = <<>> /\ step_states = <<>> /\ step_states_after = <<>>

\* Parser.parse has not been called
NoCall ==
    /\ calls = 0 /\ first_result = <<>> /\ first_states = <<>> /\ partials = <<>>
    /\ pc = "idle" /\ err = "" /\ mode = "" /\ in_hyp = <<>> /\ in_states = <<>>
    /\ t = 0 /\ t0 = 0 /\ steps = 0
    /\ hypotheses = <<>> /\ hyp_states = <<>> /\ hyp_scores = <<>> /\ h_tm1 = <<>>
    /\ completed_hypotheses = <<>> /\ saved_states = <<>>
    /\ NoStep
    /\ result = <<>> /\ result_states = <<>>
    /\ sample_result = <<>>

\* Parser.score is not called
ScoreUnused ==
    /\ sc_pc = "unused" /\ sc_no_copy = FALSE
    /\ sc_example = <<>> /\ sc_padding = <<>> /\ sc_score = 0

\* no stanford_parse is constructed
DepUnused ==
    dep_pc = "unused" /\ dep_governor = <<>> /\ has_children = <<>>

\* a parser with its grammar, vocabulary and weights, and the arguments the
\* caller uses; no call made yet
Init ==
    /\ gram \in GrammarIds
    /\ seed \in 0..(NumSeeds - 1)
    /\ tieMode \in {"low", "high"}
    /\ no_copy \in BOOLEAN
    /\ src_sent \in SrcSents
    /\ beam_size \in 1..MaxBeam
    /\ return_states \in BOOLEAN
    /\ ScoreUnused /\ DepUnused
    /\ NoCall

NoStep1 ==
    /\ step_hyps' = <<>> /\ step_h_t' = <<>> /\ step_ncompleted' = 0
    /\ primitive_prob' = <<>> /\ applyrule_new_hyp_scores' = <<>>
    /\ gentoken_prev_hyp_ids' = <<>> /\ gentoken_new_hyp_unks' = <<>>
    /\ new_hyp_scores' = <<>> /\ top_new_hyp_pos' = <<>> /\ selected' = <<>>
    /\ new_hypotheses' = <<>> /\ live_hyp_ids' = <<>>
    /\ step_hyps_after' = <<>> /\ step_states' = <<>> /\ step_states_after' = <<>>

\* faulty variant: the list of completed hypotheses is an attribute of the parser
\* that a new call does not empty
ParseFreshKeepCompleted ==
    /\ pc = "idle" \/ (pc \in {"done", "failed"} /\ calls < MaxCalls)
    /\ calls' = calls + 1
    /\ mode' = "fresh" /\ in_hyp' = <<>> /\ in_states' = <<>>
    /\ t' = 0 /\ t0' = 0 /\ steps' = 0
    /\ hypotheses' = << EmptyHyp >>
    /\ hyp_states' = << <<>> >>
    /\ h_tm1' = << init_decoder_state(src_sent) >>
    /\ hyp_scores' = << 0 >>
    /\ completed_hypotheses' = completed_hypotheses /\ saved_states' = saved_states
    /\ NoStep1
    /\ result' = <<>> /\ result_states' = <<>>
    /\ pc' = "loop" /\ err' = ""
    /\ UNCHANGED << auxvars, cfgvars, first_result, first_states, partials, sample_result >>

\* parse(src_sent): lines 594-630 with hyp = None; the caller makes up to
\* MaxCalls calls, resuming at most once
ParseFresh ==
    /\ pc = "idle" \/ (pc \in {"done", "failed"} /\ calls < MaxCalls)
    /\ calls' = calls + 1
    /\ mode' = "fresh" /\ in_hyp' = <<>> /\ in_states' = <<>>
    /\ t' = 0 /\ t0' = 0 /\ steps' = 0
    /\ hypotheses' = << EmptyHyp >>
    /\ hyp_states' = << <<>> >>
    /\ h_tm1' = << init_decoder_state(src_sent) >>
    /\ hyp_scores' = << 0 >>
    /\ completed_hypotheses' = <<>> /\ saved_states' = <<>>
    /\ NoStep1
    /\ result' = <<>> /\ result_states' = <<>>
    /\ pc' = "loop" /\ err' = ""
    /\ UNCHANGED << auxvars, cfgvars, first_result, first_states, partials, sample_result >>

\* parse(src_sent, hyp, states): lines 594-630 with a supplied hypothesis
ParseResume(hyp, states, how) ==
    /\ pc = "done" /\ calls = 1
    /\ calls' = calls + 1
    /\ mode' = how /\ in_hyp' = << hyp >> /\ in_states' = << states >>
    /\ t' = hyp.t /\ t0' = hyp.t /\ steps' = 0
    /\ hypotheses' = << hyp >>
    /\ hyp_states' = << states >>
    /\ h_tm1' = << At0(states, hyp.t - 1) >>
    /\ hyp_scores' = << 0 >>
    /\ completed_hypotheses' = <<>> /\ saved_states' = <<>>
    /\ NoStep1
    /\ result' = <<>> /\ result_states' = <<>>
    /\ pc' = "loop" /\ err' = ""
    /\ UNCHANGED << auxvars, cfgvars, first_result, first_states, partials, sample_result >>

\* one iteration of the while loop (lines 632-901)
DecodeStep ==
    /\ pc = "loop"
    /\ LoopCond(Len(completed_hypotheses), beam_size, t)
    /\ \A i \in 1..Len(hypotheses) : ~Completed(hypotheses[i])
    /\ \E ht \in {[i \in 1..Len(hypotheses) |-> h_t(i - 1)]} :
       \E ar \in {applyrule_new_hyps(ht)} :
       \E gids \in {GenTokenPrevHypIds} :
       \E pp \in {PrimitiveProbAll(ht, gids)} :
       \E c \in {[applyrule |-> ar,
                  gentoken_prev_hyp_ids |-> gids,
                  gentoken_new_hyp_unks |-> GenTokenNewHypUnks(ht, gids),
                  new_hyp_scores |-> NewHypScores(ar, gids, pp),
                  hypotheses |-> hypotheses]} :
       \E top \in {topk(c.new_hyp_scores,
                        TopKSize(Len(c.new_hyp_scores), beam_size,
                                 Len(completed_hypotheses)), {})} :
       \E sel \in {SelectedOf(c, top)} :
       \E done \in {SelectSeq(sel, LAMBDA x : Completed(x.hyp))} :
       \E live \in {SelectSeq(sel, LAMBDA x : ~Completed(x.hyp))} :
       \E nsaved \in {IF return_states THEN Len(done) ELSE 0} :
       \E ext \in {ExtendAll(hyp_states, ht, SubSeq(done, 1, nsaved) \o live)} :
           /\ c.new_hyp_scores # <<>>
           /\ step_hyps_after' = BeamAfter(c, top)
           /\ step_states' = hyp_states
           /\ step_states_after' = ext.heap
           /\ step_hyps' = hypotheses
           /\ step_h_t' = ht
           /\ step_ncompleted' = Len(completed_hypotheses)
           /\ primitive_prob' = pp
           /\ applyrule_new_hyp_scores' =
                [k \in 1..Len(c.applyrule) |-> c.applyrule[k].score]
           /\ gentoken_prev_hyp_ids' = c.gentoken_prev_hyp_ids
           /\ gentoken_new_hyp_unks' = c.gentoken_new_hyp_unks
           /\ new_hyp_scores' = c.new_hyp_scores
           /\ top_new_hyp_pos' = top
           /\ selected' = sel
           /\ new_hypotheses' = [k \in 1..Len(live) |-> live[k].hyp]
           /\ live_hyp_ids' = [k \in 1..Len(live) |-> live[k].prev_hyp_id]
           /\ completed_hypotheses' =
                CompletedAfter(completed_hypotheses, [k \in 1..Len(done) |-> done[k].hyp])
           /\ saved_states' = saved_states \o SubSeq(ext.out, 1, nsaved)
           /\ steps' = steps + 1
           /\ IF live # <<>>
              THEN /\ hyp_states' = SubSeq(ext.out, nsaved + 1, Len(ext.out))
                   /\ h_tm1' = [k \in 1..Len(live) |-> At0(ht, live[k].prev_hyp_id)]
                   /\ hypotheses' = [k \in 1..Len(live) |-> live[k].hyp]
                   /\ hyp_scores' = [k \in 1..Len(live) |-> live[k].hyp.score]
                   /\ t' = NextT(t)
                   /\ pc' = "loop"
              ELSE /\ UNCHANGED << hyp_states, h_tm1, hypotheses, hyp_scores, t >>
                   /\ pc' = "break"
           /\ partials' =
                IF calls = 1 /\ Len(live) = 1 /\ done = <<>> /\ completed_hypotheses = <<>>
                THEN Append(partials, [hyp |-> live[1].hyp,
                                       states |-> ext.out[Len(ext.out)]])
                ELSE partials
    /\ UNCHANGED << auxvars, cfgvars, calls, first_result, first_states, err, callargs, retvars,
                    sample_result >>

\* an iteration that raises: a hypothesis of the beam has no open frontier
\* (frontier_node is read at lines 684-706 unless the parent embeddings are
\* all switched off, else the transition system is asked at line 753), or
\* no candidate was produced and new_hyp_scores is None at line 821
DecodeStepRaise ==
    /\ pc = "loop"
    /\ LoopCond(Len(completed_hypotheses), beam_size, t)
    /\ IF \E i \in 1..Len(hypotheses) : Completed(hypotheses[i])
       THEN \E no_parent_info \in BOOLEAN :
                err' = IF no_parent_info THEN "InvalidGrammarStateError"
                       ELSE "AttributeError"
       ELSE /\ \A i \in 1..Len(hypotheses) :
                    get_valid_continuation_types(gram, hypotheses[i]) = << "ApplyRule" >>
                        /\ get_valid_continuating_productions(gram, hypotheses[i]) = <<>>
            /\ err' = "AttributeError"
    /\ pc' = "failed"
    /\ UNCHANGED << auxvars, cfgvars, callervars, callargs, loopvars, stepvars, retvars,
                    sample_result >>

\* after the loop (lines 903-918)
Return ==
    /\ \/ pc = "loop" /\ ~LoopCond(Len(completed_hypotheses), beam_size, t)
       \/ pc = "break"
    /\ result' = SortByScore(ResultList(completed_hypotheses, hypotheses))
    /\ result_states' = IF return_states
                        THEN SortStatesByScore(completed_hypotheses, saved_states)
                        ELSE <<>>
    /\ pc' = "done"
    /\ first_result' = IF calls = 1 THEN result' ELSE first_result
    /\ first_states' = IF calls = 1 THEN result_states' ELSE first_states
    /\ UNCHANGED << auxvars, cfgvars, calls, partials, err, callargs, loopvars, stepvars,
                    sample_result >>

\* the caller resumes from a partial hypothesis of the first call
ResumePartial ==
    \E i \in 1..Len(partials) :
        ParseResume(partials[i].hyp, partials[i].states, "partial")

\* the caller resumes from a hypothesis the first call returned as completed,
\* with the decoder states returned for it
ResumeCompleted ==
    \E j \in 1..Len(first_states) :
        /\ Completed(first_result[j])
        /\ ParseResume(first_result[j], first_states[j], "completed")

\* Parser.sample with a hypothesis that is already completed (lines 934-935):
\* it is returned, parse is not called
SampleCompleted ==
    /\ pc = "done" /\ calls = 1
    /\ \E j \in 1..Len(first_result) :
            /\ Completed(first_result[j])
            /\ in_hyp' = << first_result[j] >>
            /\ sample_result' = << first_result[j] >>
    /\ calls' = calls + 1
    /\ mode' = "sample" /\ in_states' = <<>> /\ steps' = 0
    /\ pc' = "sampled"
    /\ UNCHANGED << auxvars, cfgvars, first_result, first_states, partials, err, t, t0,
                    hypotheses, hyp_states, hyp_scores, h_tm1,
                    completed_hypotheses, saved_states, stepvars, retvars >>

\* the top-ranked element of what parse returned (lines 942-944)
SampleTop(list) == << list[1] >>

\* Parser.sample without hypothesis or with one that is not completed (lines
\* 937-944): the call of parse just returned was made by sample, with
\* return_states = False and the configured beam size; sample returns its
\* first element
SampleReturn ==
    /\ pc = "done" /\ ~return_states
    /\ mode \in {"fresh", "partial"}
    /\ sample_result' = SampleTop(result)
    /\ pc' = "sampled"
    /\ UNCHANGED << auxvars, cfgvars, callervars, err, callargs, loopvars, stepvars, retvars >>

Next ==
    \/ ParseFresh
    \/ ResumePartial
    \/ ResumeCompleted
    \/ DecodeStep
    \/ DecodeStepRaise
    \/ Return
    \/ SampleCompleted
    \/ SampleReturn

Spec == Init /\ [][Next]_vars

\* a call that was started runs on: the loop and the return are not
\* suspended; the caller need not call again
Run == Return \/ DecodeStepRaise \/ DecodeStep

FairSpec == Init /\ [][Next]_vars /\ WF_vars(Run)

\* ------------------------------------------------------------- Parser.score
\* One target position of an example as score sees it (lines 298-358): the
\* three masks of the batch, the probability of the gold production
\* (tgt_apply_rule_prob) and of the gold token in the vocabulary
\* distribution (tgt_primitive_gen_from_vocab_prob) in 1/ProbUnit, the
\* summed attention on the occurrences of the gold token
\* (tgt_primitive_copy_prob) in 1/ProbUnit, and the generate entry of
\* primitive_predictor in 1/GateUnit.
RulePositions ==
    {[apply_rule_mask |-> 1, gen_token_mask |-> 0, primitive_copy_mask |-> 0,
      tgt_apply_rule_prob |-> r, primitive_predictor |-> 2,
      tgt_primitive_gen_from_vocab_prob |-> 3, tgt_primitive_copy_prob |-> 0]
        : r \in {0, 2, ProbUnit}}

TokenPositions ==
    {[apply_rule_mask |-> 0, gen_token_mask |-> m[1], primitive_copy_mask |-> m[2],
      tgt_apply_rule_prob |-> 1, primitive_predictor |-> g,
      tgt_primitive_gen_from_vocab_prob |-> 3, tgt_primitive_copy_prob |-> 5]
        : m \in {<< 1, 0 >>, << 0, 1 >>, << 1, 1 >>}, g \in {0, 1, GateUnit}}

\* a position past the last action of the example: the batch sets its three
\* masks to 0, the probabilities are whatever the layers compute there
PadPositions ==
    {[apply_rule_mask |-> 0, gen_token_mask |-> 0, primitive_copy_mask |-> 0,
      tgt_apply_rule_prob |-> r, primitive_predictor |-> 2,
      tgt_primitive_gen_from_vocab_prob |-> 3, tgt_primitive_copy_prob |-> 0]
        : r \in {0, 2}}

\* floating point: the result of (-inf) * 0, and what an operation with it
\* gives
NaN == 0 - 2000

\* 1.e-7 as a probability, and its logarithm in 1/LogScale bits
TinyProb == 0 - 1
TinyLog == 0 - 94

\* torch.log of a probability in 1/(GateUnit * ProbUnit)
LogProb(prob) == IF prob = TinyProb THEN TinyLog ELSE LogP(prob)

\* log_prob * mask for a mask of 0 or 1
TimesMask(log_prob, mask) ==
    IF mask = 1 THEN log_prob
    ELSE IF log_prob = NegInf \/ log_prob = NaN THEN NaN ELSE 0

AddFloat(a, b) == IF a = NaN \/ b = NaN THEN NaN ELSE AddScore(a, b)

\* action_mask_pad (lines 362-365)
action_mask_pad(pos) ==
    pos.apply_rule_mask + pos.gen_token_mask + pos.primitive_copy_mask = 0

\* action_prob before the fill (lines 369-371), in 1/(GateUnit * ProbUnit)
MaskedActionProb(pos) ==
    GateUnit * pos.tgt_apply_rule_prob * pos.apply_rule_mask
        + pos.primitive_predictor * pos.tgt_primitive_gen_from_vocab_prob
            * pos.gen_token_mask
        + (GateUnit - pos.primitive_predictor) * pos.tgt_primitive_copy_prob
            * pos.primitive_copy_mask

\* faulty variant: the padding positions are not filled before the logarithm
masked_fill_none(prob, pad) == prob

\* action_prob.data.masked_fill_(action_mask_pad.data, 1.e-7) (line 374)
masked_fill(prob, pad) == IF pad THEN TinyProb ELSE prob

\* action_prob of one position with copy enabled (lines 362-376)
ActionLogProbCopy(pos) ==
    TimesMask(LogProb(masked_fill(MaskedActionProb(pos), action_mask_pad(pos))),
              IF action_mask_pad(pos) THEN 0 ELSE 1)

\* action_prob of one position with no_copy, without label smoothing (lines
\* 337-341)
ActionLogProbNoCopy(pos) ==
    AddFloat(TimesMask(LogP(GateUnit * pos.tgt_apply_rule_prob), pos.apply_rule_mask),
             TimesMask(LogP(GateUnit * pos.tgt_primitive_gen_from_vocab_prob),
                       pos.gen_token_mask))

\* torch.sum(action_prob, dim=0) for one example (line 378)
SumFloat(s) ==
    LET F[i \in 0..Len(s)] == IF i = 0 THEN 0 ELSE AddFloat(F[i - 1], s[i])
    IN  F[Len(s)]

ScoreOf(positions, nocopy) ==
    SumFloat([i \in 1..Len(positions) |->
                IF nocopy THEN ActionLogProbNoCopy(positions[i])
                ELSE ActionLogProbCopy(positions[i])])

\* all sequences over S of length 0..n
SeqsFromZero(S, n) == {<<>>} \cup SeqsUpTo(S, n)

\* Parser.parse plays no part: one parser, never called
ParserUnused ==
    /\ gram = 1 /\ seed = 0 /\ tieMode = "low" /\ no_copy = FALSE
    /\ src_sent = << "a" >> /\ beam_size = 1 /\ return_states = FALSE
    /\ NoCall

\* an example with its target positions in a batch that pads it
ScoreInit ==
    /\ ParserUnused /\ DepUnused
    /\ sc_pc = "idle"
    /\ sc_no_copy \in BOOLEAN
    /\ sc_example \in SeqsUpTo(RulePositions \cup TokenPositions, MaxTgtLen)
    /\ sc_padding \in SeqsFromZero(PadPositions, MaxPad)
    /\ sc_score = 0

\* Parser.score for the example (lines 263-387)
Score ==
    /\ sc_pc = "idle"
    /\ sc_score' = ScoreOf(sc_example \o sc_padding, sc_no_copy)
    /\ sc_pc' = "scored"
    /\ UNCHANGED << cfgvars, callervars, pc, err, callargs, loopvars, stepvars,
                    retvars, sample_result, depvars, sc_no_copy, sc_example,
                    sc_padding >>

ScoreNext == Score

ScoreSpec == ScoreInit /\ [][ScoreNext]_vars

\* ------------------------------------------- stanford_parse (rdf_parse.py)
\* A parse with dependencies: token number i (w['index'], from 1) has the
\* governor dep_governor[i], the number of its head token, 0 for the token
\* whose dependency is ROOT.  The dependencies form a tree.
TokenIds(governor) == 1..Len(governor)

RECURSIVE ReachesRoot(_, _, _)
ReachesRoot(governor, i, fuel) ==
    \/ governor[i] = 0
    \/ fuel > 0 /\ ReachesRoot(governor, governor[i], fuel - 1)

IsDependencyTree(governor) ==
    /\ Cardinality({i \in TokenIds(governor) : governor[i] = 0}) = 1
    /\ \A i \in TokenIds(governor) : ReachesRoot(governor, i, Len(governor))

DependencyParses ==
    {governor \in UNION {[1..n -> 0..n] : n \in 1..MaxTokens} :
        IsDependencyTree(governor)}

\* tok.head: governor - 1 (line 175), -1 for the ROOT token
head(governor, i) == governor[i] - 1

\* the token that the list index k addresses in a list of n tokens, as a
\* token number: a negative index counts from the end of the list
ListIndex(k, n) == IF k < 0 THEN n + k + 1 ELSE k + 1

\* the tokens marked by the loop of lines 192-193:
\* self.tokens[tok.head].has_children = True for every token
MarkedTokens(governor) ==
    {ListIndex(head(governor, i), Len(governor)) : i \in TokenIds(governor)}

\* get_children (lines 224-225): the tokens t with t.head + 1 == tok.i
get_children(governor, i) ==
    {j \in TokenIds(governor) : head(governor, j) + 1 = i}

DepInit ==
    /\ ParserUnused /\ ScoreUnused
    /\ dep_pc = "parsed"
    /\ dep_governor \in DependencyParses
    /\ has_children = [i \in TokenIds(dep_governor) |-> FALSE]

\* stanford_parse.__init__ (lines 141-205): the tokens are created with
\* has_children = False (line 111), then the loop of 192-193 sets the flags
Construct ==
    /\ dep_pc = "parsed"
    /\ has_children' = [i \in TokenIds(dep_governor) |->
                            i \in MarkedTokens(dep_governor)]
    /\ dep_pc' = "constructed"
    /\ UNCHANGED << cfgvars, callervars, pc, err, callargs, loopvars, stepvars,
                    retvars, sample_result, scorevars, dep_governor >>

DepNext == Construct

DepSpec == DepInit /\ [][DepNext]_vars

\* ------------------------------------------------------------ properties
\* a step of the current call has been executed; the step variables
\* describe it
StepDone == steps > 0

\* the last executed step left no live hypothesis: the loop was left by the
\* break of line 901
Broke == StepDone /\ live_hyp_ids = <<>>

\* the originating hypothesis and the applied action of a selected candidate
PrevOf(x) == At0(step_hyps, x.prev_hyp_id)
ActionOf(x) == x.hyp.actions[Len(x.hyp.actions)]

IsSortedByScore(list) ==
    \A i \in 1..Len(list) : \A j \in i..Len(list) : list[i].score >= list[j].score

\* the two lists hold the same elements, each as often
SameElements(l1, l2) ==
    /\ Len(l1) = Len(l2)
    /\ \A x \in Range(l1) \cup Range(l2) :
            Cardinality({i \in 1..Len(l1) : l1[i] = x})
                = Cardinality({i \in 1..Len(l2) : l2[i] = x})

\* C1: at the end of every decoding step the live hypotheses plus the
\* completed hypotheses are at most beam_size and at least one; while the
\* loop goes on the live hypotheses are the beam of the next step.
C1_BeamSize ==
    StepDone =>
        /\ Len(new_hypotheses) + Len(completed_hypotheses) <= beam_size
        /\ Len(new_hypotheses) + Len(completed_hypotheses) >= 1
        /\ pc = "loop" => hypotheses = new_hypotheses

C1_Witness ==
    /\ StepDone
    /\ Len(new_hypotheses) >= 1 /\ Len(completed_hypotheses) >= 1
    /\ Len(new_hypotheses) + Len(completed_hypotheses) = beam_size

\* C2: every action applied in a step is applied to a clone of a hypothesis
\* of that step's beam and is legal for it: its type is one of the types the
\* transition system returned for that hypothesis, and an ApplyRule carries
\* one of the productions returned for it.
C2_GrammarLegality ==
    StepDone =>
        \A k \in 1..Len(selected) :
            LET x == selected[k]
                types == get_valid_continuation_types(gram, PrevOf(x))
            IN  /\ x.prev_hyp_id \in 0..(Len(step_hyps) - 1)
                /\ x.hyp.actions = Append(PrevOf(x).actions, ActionOf(x))
                /\ ActionOf(x).kind \in Range(types)
                /\ ActionOf(x).kind = "ApplyRule" =>
                        ActionOf(x).prod \in
                            Range(get_valid_continuating_productions(gram, PrevOf(x)))

C2_Witness ==
    /\ StepDone
    /\ Len(step_hyps) = 2
    /\ gentoken_prev_hyp_ids = << 1 >>
    /\ \E k \in 1..Len(selected) :
            ActionOf(selected[k]).kind = "GenToken" /\ selected[k].prev_hyp_id = 1
    /\ \E k \in 1..Len(selected) : ActionOf(selected[k]).kind = "Reduce"

\* C3: a decoding step is executed only while fewer than beam_size
\* hypotheses are completed and t is below decode_max_time_step; once either
\* fails no further step is executed in the call.
C3_StopCondition ==
    [][steps' = steps + 1 =>
            /\ Len(completed_hypotheses) < beam_size
            /\ t < decode_max_time_step]_vars

C3_Witness ==
    /\ pc = "done" /\ steps = decode_max_time_step
    /\ t = decode_max_time_step
    /\ Len(completed_hypotheses) = 1 /\ beam_size = 2

\* C4: every call ends; it returns a result unless it was handed a
\* hypothesis that is already completed; t grows by one on every iteration
\* that goes on to another one, and a call executes at most
\* decode_max_time_step - (starting t) steps.
C4_Termination ==
    /\ [](steps <= decode_max_time_step - t0)
    /\ [][(steps' = steps + 1 /\ pc' = "loop") => t' = t + 1]_vars
    /\ [](pc = "failed" => mode = "completed")
    /\ (pc = "loop") ~> (pc \in {"done", "failed"})

C4_Witness ==
    /\ pc = "done" /\ mode = "partial"
    /\ t0 > 0 /\ steps = decode_max_time_step - t0
    /\ completed_hypotheses = <<>>

\* C5 (as claimed): every successor hypothesis, in fresh and in resumed
\* decoding, has a score not above the score of its originating hypothesis.
C5_ScoreNonIncrease ==
    StepDone =>
        \A k \in 1..Len(selected) :
            selected[k].hyp.score - PrevOf(selected[k]).score <= 0

\* C6: the returned list is ordered by non-increasing score, and when a
\* hypothesis completed during the search it holds exactly the completed
\* hypotheses.
C6_Result ==
    pc = "done" =>
        /\ IsSortedByScore(result)
        /\ completed_hypotheses # <<>> =>
                /\ SameElements(result, completed_hypotheses)
                /\ \A i \in 1..Len(result) : Completed(result[i])

C6_Witness ==
    /\ pc = "done"
    /\ Len(completed_hypotheses) = 2
    /\ completed_hypotheses[1].score < completed_hypotheses[2].score
    /\ result = << completed_hypotheses[2], completed_hypotheses[1] >>

\* the loop was left because t reached the bound, no hypothesis completed
AtStepBound ==
    /\ pc = "done" /\ ~Broke
    /\ t >= decode_max_time_step
    /\ completed_hypotheses = <<>>

C8_EarlyExhaustion ==
    /\ [][(pc = "break" /\ Len(completed_hypotheses) < beam_size)
            => (pc' = "done" /\ steps' = steps /\ err' = "")]_vars
    /\ [](pc = "done" /\ Broke /\ Len(completed_hypotheses) < beam_size =>
            /\ completed_hypotheses # <<>>
            /\ SameElements(result, completed_hypotheses))

C8_Witness ==
    /\ pc = "done" /\ Broke
    /\ Len(completed_hypotheses) = 1 /\ beam_size = 2
    /\ result = completed_hypotheses

\* what a call returns: the action history and the score of each hypothesis
Outcome(list) ==
    [i \in 1..Len(list) |-> [actions |-> list[i].actions, score |-> list[i].score]]

\* C9 (as claimed): a call resumed from a partial hypothesis of the first
\* call, taken with its decoder states when it was the whole beam, returns
\* the hypotheses and scores the first call returned.
C9_IdempotentReentry ==
    (pc = "done" /\ calls = 2 /\ mode = "partial") =>
        Outcome(result) = Outcome(first_result)

\* the mass a step assigned to the GenToken candidates of a hypothesis
GenTokenMass(hyp_id) == SumSeq(At0(primitive_prob, hyp_id))

\* generate-weighted vocabulary mass over the slots in S
GenMass(hyp_id, S) ==
    SumSeq([slot \in 1..VocabSize |->
        IF (slot - 1) \in S
        THEN primitive_predictor_prob(At0(step_h_t, hyp_id), 0)
                * gen_from_vocab_prob(At0(step_h_t, hyp_id), slot - 1)
        ELSE 0])

\* copy-weighted attention mass over the source positions in P
CopyMass(hyp_id, P) ==
    SumSeq([i \in 1..Len(src_sent) |->
        IF (i - 1) \in P
        THEN primitive_predictor_prob(At0(step_h_t, hyp_id), 1)
                * primitive_copy_prob(At0(step_h_t, hyp_id), i - 1)
        ELSE 0])

AllSlots == 0..(VocabSize - 1)
AllPositions == 0..(Len(src_sent) - 1)
KnownPositions == {i \in AllPositions : InVocab(At0(src_sent, i))}
UnknownTokens == {At0(src_sent, i) : i \in AllPositions \ KnownPositions}
PositionsOf(token) == {i \in AllPositions : At0(src_sent, i) = token}

\* C10 (as claimed): with copy enabled the mass of the GenToken candidates
\* of a hypothesis is the generate-weighted vocabulary mass plus the
\* copy-weighted attention mass of all input positions.
C10_ConservationOriginal ==
    (StepDone /\ ~no_copy) =>
        \A k \in 1..Len(gentoken_prev_hyp_ids) :
            LET hyp_id == gentoken_prev_hyp_ids[k]
            IN  GenTokenMass(hyp_id)
                    = GenMass(hyp_id, AllSlots) + CopyMass(hyp_id, AllPositions)

\* C10 (amended): the equality of the claim holds when every input token is
\* in the vocabulary.  When the input has tokens outside the vocabulary the
\* unknown slot holds only the largest copy mass of such a token: the mass
\* is the generate-weighted mass of the other slots, plus the copy-weighted
\* attention on the positions of the in-vocabulary tokens, plus that largest
\* copy mass.
C10_Conservation ==
    (StepDone /\ ~no_copy) =>
        \A k \in 1..Len(gentoken_prev_hyp_ids) :
            LET hyp_id == gentoken_prev_hyp_ids[k]
            IN  IF UnknownTokens = {}
                THEN GenTokenMass(hyp_id)
                        = GenMass(hyp_id, AllSlots) + CopyMass(hyp_id, AllPositions)
                ELSE \E token \in UnknownTokens :
                        /\ \A other \in UnknownTokens :
                                CopyMass(hyp_id, PositionsOf(other))
                                    <= CopyMass(hyp_id, PositionsOf(token))
                        /\ GenTokenMass(hyp_id)
                                = GenMass(hyp_id, AllSlots \ {unk})
                                    + CopyMass(hyp_id, KnownPositions)
                                    + CopyMass(hyp_id, PositionsOf(token))

C10_Witness ==
    /\ StepDone /\ ~no_copy
    /\ gentoken_prev_hyp_ids # <<>>
    /\ Cardinality(UnknownTokens) = 2
    /\ GenTokenMass(gentoken_prev_hyp_ids[1]) < GateUnit * ProbUnit

\* C11: with the grammar whose only production is a root production without
\* fields, a fresh call executes exactly one step and returns exactly one
\* hypothesis; it is completed, its only action is ApplyRule of the root
\* production and its score is the log-probability of that action, for
\* every beam size and every utterance.
C11_Scenario1 ==
    (gram = 1 /\ mode = "fresh") =>
        /\ pc # "failed"
        /\ pc = "done" =>
            /\ steps = 1
            /\ Len(result) = 1
            /\ Completed(result[1])
            /\ Len(result[1].actions) = 1
            /\ result[1].actions[1].kind = "ApplyRule"
            /\ result[1].actions[1].prod = 0
            /\ result[1].score = apply_rule_log_prob(At0(step_h_t, 0), 0)

C11_Witness ==
    /\ gram = 1 /\ mode = "fresh" /\ pc = "done"
    /\ beam_size = MaxBeam /\ Len(src_sent) = MaxSrcLen
    /\ Len(result) = 1

\* ApplyRule of the root production, one or more GenToken, one final Reduce
IsScenario2History(actions) ==
    /\ Len(actions) >= 3
    /\ actions[1].kind = "ApplyRule" /\ actions[1].prod = 0
    /\ \A i \in 2..(Len(actions) - 1) : actions[i].kind = "GenToken"
    /\ actions[Len(actions)].kind = "Reduce"

\* C12: with the grammar whose root production has one sequence-valued
\* primitive field, every hypothesis a call completes has the history
\* ApplyRule(root), one or more GenToken, one final Reduce; a hypothesis
\* that a step keeps live holds no Reduce.
C12_Scenario2 ==
    gram = 2 =>
        /\ \A i \in 1..Len(completed_hypotheses) :
                IsScenario2History(completed_hypotheses[i].actions)
        /\ \A i \in 1..Len(new_hypotheses) :
                \A k \in 1..Len(new_hypotheses[i].actions) :
                    new_hypotheses[i].actions[k].kind # "Reduce"
        /\ pc = "done" /\ completed_hypotheses # <<>> =>
                \A i \in 1..Len(result) : IsScenario2History(result[i].actions)

C12_Witness ==
    /\ gram = 2 /\ pc = "done"
    /\ Len(result) = 2
    /\ \E i \in 1..2 : Len(result[i].actions) = 3
    /\ \E i \in 1..2 : Len(result[i].actions) = 4

\* the largest candidate score of the last executed step
MaxScore == CHOOSE m \in Range(new_hyp_scores) : \A x \in Range(new_hyp_scores) : x <= m

AllNonFinite ==
    /\ new_hyp_scores # <<>>
    /\ \A i \in 1..Len(new_hyp_scores) : new_hyp_scores[i] = NegInf

\* C14 (as claimed): a step whose candidate scores are all non-finite, or
\* that has no candidate, ends the call as a failed decode (EmptyBeamError):
\* no candidate is selected and no successor hypothesis is created.
C14_EmptyBeam ==
    (StepDone /\ AllNonFinite) =>
        /\ pc = "failed" /\ err = "EmptyBeamError"
        /\ selected = <<>>

\* C15 (as claimed): a call handed a hypothesis that is already completed
\* fails with InvalidGrammarStateError: it creates no successor, returns no
\* result and raises no other error.
C15_InvalidGrammarState ==
    mode = "completed" =>
        /\ steps = 0
        /\ pc # "done"
        /\ pc = "failed" => err = "InvalidGrammarStateError"

\* C16: a fresh call made after other calls of the same parser with the same
\* utterance and arguments returns what the first call returned, hypotheses,
\* scores and decoder states alike, whatever call ran in between (none, a
\* fresh call, a resumed call that returned, a resumed call that failed).
C16_Reentrancy ==
    (mode = "fresh" /\ calls >= 2) =>
        /\ pc # "failed"
        /\ pc = "done" =>
            /\ result = first_result
            /\ result_states = first_states

C16_Witness ==
    /\ mode = "fresh" /\ calls = 3 /\ pc = "done"
    /\ partials # <<>> /\ first_states # <<>>
    /\ Len(result) = 2

\* C17 (as claimed): Parser.sample returns a completed hypothesis: the
\* supplied one, without any decoding step, when it is already completed,
\* else the top-ranked result of parse.
C17_SampleCompleted ==
    pc = "sampled" =>
        /\ Len(sample_result) = 1
        /\ Completed(sample_result[1])
        /\ mode = "sample" => (sample_result = in_hyp /\ steps = 0)
        /\ mode # "sample" => sample_result[1] = result[1]

\* the positions of the flat candidate array
CandidatePositions == 0..(Len(new_hyp_scores) - 1)

\* C18: a step selects exactly min(number of candidates, beam_size minus the
\* hypotheses completed before the step) distinct positions of the flat
\* candidate array, and no position left out has a strictly higher score
\* than a selected one; one successor is created per selected position.
C18_TopK ==
    StepDone =>
        /\ Len(new_hyp_scores)
                = Len(applyrule_new_hyp_scores) + VocabSize * Len(gentoken_prev_hyp_ids)
        /\ Len(top_new_hyp_pos)
                = Min2(Len(new_hyp_scores), beam_size - step_ncompleted)
        /\ Range(top_new_hyp_pos) \subseteq CandidatePositions
        /\ Cardinality(Range(top_new_hyp_pos)) = Len(top_new_hyp_pos)
        /\ \A i \in Range(top_new_hyp_pos) :
                \A j \in CandidatePositions \ Range(top_new_hyp_pos) :
                    At0(new_hyp_scores, j) <= At0(new_hyp_scores, i)
        /\ Len(selected) = Len(top_new_hyp_pos)
        /\ \A k \in 1..Len(selected) : selected[k].new_hyp_pos = top_new_hyp_pos[k]

C18_Witness ==
    /\ StepDone
    /\ step_ncompleted = 1 /\ beam_size = MaxBeam
    /\ Len(step_hyps) >= 1
    /\ Len(new_hyp_scores) > Len(top_new_hyp_pos)
    /\ Len(gentoken_prev_hyp_ids) >= 1 /\ Len(applyrule_new_hyp_scores) >= 1
    /\ \E j \in CandidatePositions \ Range(top_new_hyp_pos) :
            At0(new_hyp_scores, j) < At0(new_hyp_scores, top_new_hyp_pos[1])

\* C19 (as claimed): among candidates of equal score the one earlier in the
\* flat candidate array is selected first: a position left out never has
\* the score of a selected later position, and selected positions of equal
\* score are returned in increasing order.
C19_TieBreak ==
    StepDone =>
        /\ \A i \in Range(top_new_hyp_pos) :
                \A j \in CandidatePositions \ Range(top_new_hyp_pos) :
                    At0(new_hyp_scores, j) = At0(new_hyp_scores, i) => i < j
        /\ \A a \in 1..Len(top_new_hyp_pos) : \A b \in (a + 1)..Len(top_new_hyp_pos) :
                At0(new_hyp_scores, top_new_hyp_pos[a])
                        = At0(new_hyp_scores, top_new_hyp_pos[b])
                    => top_new_hyp_pos[a] < top_new_hyp_pos[b]

\* the number of ApplyRule/Reduce candidates of the last executed step
Offset == Len(applyrule_new_hyp_scores)

\* the candidate list of hypothesis hyp_id of the last executed step, as the
\* loop of lines 751-802 builds it
StepRuleCandidates(hyp_id) ==
    LET hyp == At0(step_hyps, hyp_id)
        types == get_valid_continuation_types(gram, hyp)
        prods == get_valid_continuating_productions(gram, hyp)
    IN  (IF "ApplyRule" \in Range(types) THEN prods ELSE <<>>)
            \o (IF "Reduce" \in Range(types) THEN << GrammarLen(gram) >> ELSE <<>>)

\* C20: the flat candidate array holds the ApplyRule/Reduce candidates
\* first and then one candidate per vocabulary slot for each hypothesis with
\* a GenToken move.  For every selected position the successor is the
\* originating hypothesis extended by the action of that position, with the
\* score stored there: below the offset an ApplyRule of a production legal
\* for that hypothesis, or Reduce, with the score of the ApplyRule/Reduce
\* list; from the offset on GenToken of slot (pos - offset) mod |V| for the
\* ((pos - offset) div |V|)-th GenToken hypothesis, with the logarithm of
\* that hypothesis's probability of the slot added to its entry of
\* hyp_scores (0 in the first step of a resumed call, else its score).
C20_IndexRoundTrip ==
    StepDone =>
        /\ Len(new_hyp_scores) = Offset + VocabSize * Len(gentoken_prev_hyp_ids)
        /\ Offset = Len(Flatten([i \in 1..Len(step_hyps) |-> StepRuleCandidates(i - 1)]))
        /\ \A k \in 1..Len(selected) :
            LET x == selected[k]
                pos == x.new_hyp_pos
                a == ActionOf(x)
            IN  /\ x.hyp.score = At0(new_hyp_scores, pos)
                /\ x.hyp.actions = Append(PrevOf(x).actions, a)
                /\ IF pos < Offset
                   THEN /\ a.kind \in {"ApplyRule", "Reduce"}
                        /\ At0(new_hyp_scores, pos) = At0(applyrule_new_hyp_scores, pos)
                        /\ LET before == Flatten([i \in 1..x.prev_hyp_id |->
                                                    StepRuleCandidates(i - 1)])
                               own == StepRuleCandidates(x.prev_hyp_id)
                               id == At0(own, pos - Len(before))
                           IN  /\ pos - Len(before) \in 0..(Len(own) - 1)
                               /\ IF id < GrammarLen(gram)
                                  THEN a.kind = "ApplyRule" /\ a.prod = id
                                  ELSE a.kind = "Reduce"
                               /\ x.hyp.score
                                    = AddScore(PrevOf(x).score,
                                               apply_rule_log_prob(At0(step_h_t, x.prev_hyp_id), id))
                   ELSE LET slot == (pos - Offset) % VocabSize
                            row == (pos - Offset) \div VocabSize
                        IN  /\ a.kind = "GenToken"
                            /\ row \in 0..(Len(gentoken_prev_hyp_ids) - 1)
                            /\ x.prev_hyp_id = At0(gentoken_prev_hyp_ids, row)
                            /\ VocabId(a.token) = slot
                            /\ slot # unk => a.token = At0(idxToLabel, slot)
                            /\ x.hyp.score
                                    = AddScore(IF steps = 1 /\ mode # "fresh"
                                               THEN 0 ELSE PrevOf(x).score,
                                               LogP(At0(At0(primitive_prob, x.prev_hyp_id), slot)))

C20_Witness ==
    /\ StepDone
    /\ Len(step_hyps) = 2
    /\ Offset >= 1
    /\ gentoken_prev_hyp_ids = << 1 >>
    /\ \E k \in 1..Len(selected) :
            /\ selected[k].new_hyp_pos >= Offset
            /\ (selected[k].new_hyp_pos - Offset) % VocabSize >= 2
            /\ selected[k].prev_hyp_id = 1
    /\ \E k \in 1..Len(selected) :
            selected[k].new_hyp_pos < Offset /\ ActionOf(selected[k]).kind = "Reduce"

\* the vocabulary tokens of the utterance and the positions whose token has
\* a given vocabulary slot
KnownPositionsOfSlot(slot) ==
    {i \in KnownPositions : VocabId(At0(src_sent, i)) = slot}

\* C21: with copy enabled, for every hypothesis with a GenToken move the
\* probability of a vocabulary slot is the gate-weighted generation
\* probability of the slot plus, once, the copy-weight times the attention
\* summed over all positions of the input whose token has that slot (the
\* unknown slot aside when the input has tokens outside the vocabulary); for
\* the input "a a b" the copy part of "a" is the copy-weight times the
\* attention at position 0 plus that at position 1.
C21_CopyAggregation ==
    (StepDone /\ ~no_copy) =>
        \A k \in 1..Len(gentoken_prev_hyp_ids) :
            LET hyp_id == gentoken_prev_hyp_ids[k]
                s == At0(step_h_t, hyp_id)
                row == At0(primitive_prob, hyp_id)
            IN  /\ \A slot \in AllSlots :
                    (slot # unk \/ UnknownTokens = {}) =>
                        At0(row, slot) = GenMass(hyp_id, {slot})
                                            + CopyMass(hyp_id, KnownPositionsOfSlot(slot))
                /\ src_sent = RepeatedTokenSent =>
                        At0(row, VocabId("a")) - GenMass(hyp_id, {VocabId("a")})
                            = primitive_predictor_prob(s, 1)
                                * (primitive_copy_prob(s, 0) + primitive_copy_prob(s, 1))

C21_Witness ==
    /\ StepDone /\ ~no_copy
    /\ src_sent = RepeatedTokenSent
    /\ gentoken_prev_hyp_ids # <<>>
    /\ primitive_predictor_prob(At0(step_h_t, gentoken_prev_hyp_ids[1]), 1) > 0
    /\ \E k \in 1..Len(selected) :
            /\ ActionOf(selected[k]).kind = "GenToken"
            /\ ActionOf(selected[k]).token = "a"

\* the largest copy mass hypothesis hyp_id gives to a token of the input that
\* is not in the vocabulary
MaxUnknownCopyMass(hyp_id) ==
    CHOOSE m \in {CopyMass(hyp_id, PositionsOf(token)) : token \in UnknownTokens} :
        \A token \in UnknownTokens : CopyMass(hyp_id, PositionsOf(token)) <= m

\* the unknown slot of every hypothesis with a GenToken move holds the
\* largest copy mass of its unknown-copy candidates, a token with that mass
\* is recorded for it, and a GenToken selected at the unknown slot carries
\* the token recorded for its own hypothesis
UnknownSlotCopied ==
    /\ Len(gentoken_new_hyp_unks) = Len(gentoken_prev_hyp_ids)
    /\ \A k \in 1..Len(gentoken_prev_hyp_ids) :
            LET hyp_id == gentoken_prev_hyp_ids[k]
            IN  /\ At0(At0(primitive_prob, hyp_id), unk) = MaxUnknownCopyMass(hyp_id)
                /\ gentoken_new_hyp_unks[k] \in UnknownTokens
                /\ CopyMass(hyp_id, PositionsOf(gentoken_new_hyp_unks[k]))
                        = MaxUnknownCopyMass(hyp_id)
    /\ \A k \in 1..Len(selected) :
            LET x == selected[k]
                pos == x.new_hyp_pos
            IN  (pos >= Offset /\ (pos - Offset) % VocabSize = unk) =>
                    /\ ActionOf(x).kind = "GenToken"
                    /\ ActionOf(x).token # At0(idxToLabel, unk)
                    /\ ActionOf(x).token \in UnknownTokens
                    /\ \E r \in 1..Len(gentoken_prev_hyp_ids) :
                            /\ gentoken_prev_hyp_ids[r] = x.prev_hyp_id
                            /\ ActionOf(x).token = gentoken_new_hyp_unks[r]
                    /\ CopyMass(x.prev_hyp_id, PositionsOf(ActionOf(x).token))
                            = MaxUnknownCopyMass(x.prev_hyp_id)

\* C22 (as claimed): whenever the input has tokens outside the vocabulary the
\* unknown slot holds the largest unknown-copy mass and a GenToken selected
\* at the unknown slot carries the token recorded for its own hypothesis,
\* never the unknown symbol of the vocabulary.
C22_UnknownCopyOriginal ==
    (StepDone /\ UnknownTokens # {}) => UnknownSlotCopied

\* C22 (amended): as claimed when copy is enabled.  With copy disabled there
\* are no unknown-copy candidates: no token is recorded, the unknown slot
\* keeps its generation probability and a GenToken selected at the unknown
\* slot carries no token of the input.
C22_UnknownCopy ==
    (StepDone /\ UnknownTokens # {}) =>
        IF ~no_copy
        THEN UnknownSlotCopied
        ELSE /\ gentoken_new_hyp_unks = <<>>
             /\ \A k \in 1..Len(gentoken_prev_hyp_ids) :
                    LET hyp_id == gentoken_prev_hyp_ids[k]
                    IN  At0(At0(primitive_prob, hyp_id), unk)
                            = GateUnit * gen_from_vocab_prob(At0(step_h_t, hyp_id), unk)
             /\ \A k \in 1..Len(selected) :
                    ActionOf(selected[k]).kind = "GenToken" =>
                        ActionOf(selected[k]).token \notin UnknownTokens

C22_Witness ==
    /\ StepDone /\ ~no_copy
    /\ Len(gentoken_new_hyp_unks) = 2
    /\ gentoken_new_hyp_unks[1] # gentoken_new_hyp_unks[2]
    /\ \E k \in 1..Len(selected) :
            /\ selected[k].new_hyp_pos >= Offset
            /\ (selected[k].new_hyp_pos - Offset) % VocabSize = unk
            /\ MaxUnknownCopyMass(selected[k].prev_hyp_id) > 0

\* the action carries the provenance of its token: all the positions of the
\* token in the input, ascending, if there is one, else none
HasProvenance(a) ==
    IF PositionsOf(a.token) # {}
    THEN /\ a.copy_from_src
         /\ Range(a.src_token_position) = PositionsOf(a.token)
         /\ Len(a.src_token_position) = Cardinality(PositionsOf(a.token))
         /\ \A i \in 1..Len(a.src_token_position) :
                \A j \in (i + 1)..Len(a.src_token_position) :
                    a.src_token_position[i] < a.src_token_position[j]
    ELSE ~a.copy_from_src /\ a.src_token_position = <<>>

\* C23: every GenToken action of a successor is marked copy_from_src, with
\* all the positions of its token in the input, exactly when its token
\* occurs in the input, with copy enabled or disabled; ApplyRule and Reduce
\* actions carry no provenance.
C23_CopyProvenance ==
    StepDone =>
        \A k \in 1..Len(selected) :
            \A i \in 1..Len(selected[k].hyp.actions) :
                LET a == selected[k].hyp.actions[i]
                IN  IF a.kind = "GenToken"
                    THEN HasProvenance(a)
                    ELSE ~a.copy_from_src /\ a.src_token_position = <<>>

C23_Witness ==
    /\ StepDone /\ no_copy
    /\ \E k \in 1..Len(selected) :
            /\ ActionOf(selected[k]).kind = "GenToken"
            /\ Len(ActionOf(selected[k]).src_token_position) = 2
    /\ \E k \in 1..Len(selected) :
            /\ ActionOf(selected[k]).kind = "GenToken"
            /\ ~ActionOf(selected[k]).copy_from_src

\* C24: a step leaves every hypothesis of its beam as it was: action
\* history, tree, step counter and score; in the first step of a resumed
\* call that is the hypothesis the caller supplied.  Every successor is its
\* originating hypothesis as it was before the step, extended by its own
\* action only and with its own candidate score, also when another successor
\* was branched from the same hypothesis in the same step.
C24_CloneIsolation ==
    StepDone =>
        /\ step_hyps_after = step_hyps
        /\ (steps = 1 /\ mode # "fresh") => step_hyps_after = in_hyp
        /\ \A k \in 1..Len(selected) :
            LET x == selected[k]
            IN  /\ x.hyp.actions = Append(PrevOf(x).actions, ActionOf(x))
                /\ x.hyp.stack = ApplyToStack(gram, PrevOf(x).stack, ActionOf(x),
                                              PrevOf(x).t)
                /\ x.hyp.t = PrevOf(x).t + 1
                /\ x.hyp.score = At0(new_hyp_scores, x.new_hyp_pos)

C24_Witness ==
    /\ StepDone /\ steps = 1 /\ mode = "partial"
    /\ Len(selected) = 2
    /\ selected[1].prev_hyp_id = selected[2].prev_hyp_id
    /\ ActionOf(selected[1]) # ActionOf(selected[2])
    /\ selected[1].hyp.score # selected[2].hyp.score
    /\ step_hyps_after = in_hyp

\* C25: at the start of a step every hypothesis of the beam has t actions
\* and a state list of length t.  After a step that goes on, the state list
\* of every live hypothesis is the list its originating hypothesis had
\* before the step followed by the state the step computed for that
\* hypothesis, and there are no other lists; the lists the step was handed
\* (in the first step of a resumed call the caller's list) are as they were.
C25_StateHistory ==
    /\ pc = "loop" =>
            /\ Len(hyp_states) = Len(hypotheses)
            /\ \A i \in 1..Len(hypotheses) :
                    /\ Len(hypotheses[i].actions) = t
                    /\ Len(hyp_states[i]) = t
    /\ (StepDone /\ pc = "loop") =>
            /\ Len(hyp_states) = Len(live_hyp_ids)
            /\ \A k \in 1..Len(live_hyp_ids) :
                    hyp_states[k] = Append(At0(step_states, live_hyp_ids[k]),
                                           At0(step_h_t, live_hyp_ids[k]))
    /\ StepDone =>
            /\ step_states_after = step_states
            /\ (steps = 1 /\ mode # "fresh") => step_states_after = in_states

C25_Witness ==
    /\ StepDone /\ pc = "loop"
    /\ steps = 1 /\ mode = "partial"
    /\ Len(step_hyps) = 1 /\ Len(live_hyp_ids) = 2
    /\ hyp_states[1] = hyp_states[2]
    /\ Len(hyp_states[1]) = Len(in_states[1]) + 1
    /\ step_states_after = in_states

\* the decoder states along an action history, computed anew from the
\* utterance: state k is the state of the step that applied action k
ReplayStates(actions) ==
    LET F[k \in 0..Len(actions)] ==
            IF k = 0 THEN [hyp |-> EmptyHyp, states |-> <<>>]
            ELSE Bind(F[k - 1], LAMBDA acc :
                    [hyp |-> clone_and_apply_action_info(gram, acc.hyp, actions[k]),
                     states |->
                        Append(acc.states,
                               DecoderStep(DecoderInput(gram, acc.hyp, acc.states, k - 1),
                                           IF k = 1 THEN init_decoder_state(src_sent)
                                           ELSE acc.states[k - 1]))])
    IN  F[Len(actions)].states

\* the i-th history is the history of the i-th returned hypothesis
HistoriesMatch ==
    /\ Len(result_states) = Len(result)
    /\ \A i \in 1..Len(result) :
            /\ Len(result_states[i]) = Len(result[i].actions)
            /\ result_states[i] = ReplayStates(result[i].actions)

\* C26 (as claimed): with return_states the returned histories are one per
\* returned hypothesis, in the order of the hypotheses, each with one state
\* per action of its hypothesis.
C26_StateSnapshotsOriginal ==
    (pc = "done" /\ return_states) => HistoriesMatch

\* C26 (amended): as claimed when a hypothesis completed during the call;
\* when none completed the hypotheses returned are the live beam (or the
\* supplied hypothesis) and the list of histories is empty.
C26_StateSnapshots ==
    (pc = "done" /\ return_states) =>
        IF completed_hypotheses # <<>>
        THEN HistoriesMatch
        ELSE result_states = <<>> /\ result # <<>>

C26_Witness ==
    /\ pc = "done" /\ return_states
    /\ Len(completed_hypotheses) = 2
    /\ result = << completed_hypotheses[2], completed_hypotheses[1] >>
    /\ result[1].score > result[2].score
    /\ result_states[1] # result_states[2]
    /\ Len(result_states[1]) # Len(result_states[2])

\* the probability of the gold action of a position: the terms whose mask
\* is 1
GoldActionProb(pos) ==
    (IF pos.apply_rule_mask = 1 THEN GateUnit * pos.tgt_apply_rule_prob ELSE 0)
        + (IF pos.gen_token_mask = 1
           THEN pos.primitive_predictor * pos.tgt_primitive_gen_from_vocab_prob ELSE 0)
        + (IF pos.primitive_copy_mask = 1
           THEN (GateUnit - pos.primitive_predictor) * pos.tgt_primitive_copy_prob ELSE 0)

\* the sum of the logarithms of the gold-action probabilities of an example
LogLikelihood(example) ==
    LET F[i \in 0..Len(example)] ==
            IF i = 0 THEN 0 ELSE AddScore(F[i - 1], LogP(GoldActionProb(example[i])))
    IN  F[Len(example)]

\* C27: with copy enabled the score of an example is the sum over its target
\* positions of the logarithm of the probability of the gold action; every
\* padding position contributes exactly 0, so the score is the one the
\* example has without padding and is never an undefined number.
C27_Score ==
    (sc_pc = "scored" /\ ~sc_no_copy) =>
        /\ sc_score = LogLikelihood(sc_example)
        /\ sc_score = ScoreOf(sc_example, FALSE)
        /\ sc_score # NaN
        /\ \A i \in 1..Len(sc_padding) : ActionLogProbCopy(sc_padding[i]) = 0

C27_Witness ==
    /\ sc_pc = "scored" /\ ~sc_no_copy
    /\ Len(sc_padding) = MaxPad
    /\ \E i \in 1..Len(sc_padding) : sc_padding[i].tgt_apply_rule_prob = 0
    /\ Len(sc_example) = 2
    /\ sc_example[1].apply_rule_mask = 1
    /\ sc_example[2].gen_token_mask = 1 /\ sc_example[2].primitive_copy_mask = 1
    /\ sc_score < 0 /\ sc_score # NegInf

\* C28: at the start of every step t >= 1, fresh or resumed, the frontier
\* node of every live hypothesis was created by the ApplyRule action of a
\* time p_t between 0 and t - 1, p_t is a position of the hypothesis's own
\* state list, and that list holds the states of the hypothesis's own action
\* history, so the parent state read at p_t is the state of its own lineage.
C28_ParentState ==
    (pc = "loop" /\ t >= 1) =>
        \A i \in 1..Len(hypotheses) :
            ~Completed(hypotheses[i]) =>
                LET hyp == hypotheses[i]
                    p_t == FrontierNode(hyp).created_time
                IN  /\ hyp.stack # <<>>
                    /\ p_t \in 0..(t - 1)
                    /\ p_t < Len(hyp_states[i])
                    /\ At0(hyp.actions, p_t).kind = "ApplyRule"
                    /\ At0(hyp.actions, p_t).prod = FrontierNode(hyp).prod
                    /\ At0(hyp.actions, p_t).t = p_t
                    /\ hyp_states[i] = ReplayStates(hyp.actions)

C28_Witness ==
    /\ pc = "loop" /\ steps >= 1
    /\ LoopCond(Len(completed_hypotheses), beam_size, t)
    /\ Len(hypotheses) = 2
    /\ FrontierNode(hypotheses[1]).created_time # FrontierNode(hypotheses[2]).created_time
    /\ \E i \in 1..2 : FrontierNode(hypotheses[i]).created_time \in 1..(t - 2)

IsPrefix(l1, l2) == Len(l1) <= Len(l2) /\ SubSeq(l2, 1, Len(l1)) = l1

\* C29: during a call the list of completed hypotheses only grows at its
\* end: no entry is removed, changed or displaced; no completed hypothesis
\* is in a beam that a step expands; every completed hypothesis is in the
\* returned result, as it was when it completed.
C29_CompletedFinal ==
    /\ [][calls' = calls => IsPrefix(completed_hypotheses, completed_hypotheses')]_vars
    /\ [](StepDone =>
            /\ \A i \in 1..Len(step_hyps) : ~Completed(step_hyps[i])
            /\ \A i \in 1..Len(completed_hypotheses) :
                    Completed(completed_hypotheses[i])
            /\ pc = "loop" => \A i \in 1..Len(hypotheses) : ~Completed(hypotheses[i]))
    /\ []((pc = "done" /\ completed_hypotheses # <<>>) =>
            SameElements(result, completed_hypotheses))

C29_Witness ==
    /\ pc = "done"
    /\ Len(completed_hypotheses) = 2
    /\ Len(completed_hypotheses[1].actions) < Len(completed_hypotheses[2].actions)
    /\ completed_hypotheses[1].score < completed_hypotheses[2].score
    /\ result = << completed_hypotheses[2], completed_hypotheses[1] >>

\* C30 (as claimed): after construction the has_children flag of a token is
\* true exactly when get_children of the token is not empty; the ROOT token
\* marks no token.
C30_FlagConsistency ==
    dep_pc = "constructed" =>
        \A i \in TokenIds(dep_governor) :
            has_children[i] <=> get_children(dep_governor, i) # {}

====
